---- MODULE Spec2Model ----
(***************************************************************************)
(* Model of extract.py: the script that reads the newline-delimited JSON   *)
(* log latest_test.json, takes the first entry of "filenames" of the       *)
(* second-to-last record and copies that file to target/test/latest_tests. *)
(*                                                                         *)
(* The script is one sequential process; pc is its position.  The file     *)
(* system it runs in is part of the state: the log, the candidate source   *)
(* files, the directories target and target/test, and the destination.     *)
(* The modelled working directory is writable, target and target/test are  *)
(* either absent or directories, the destination is either absent or a     *)
(* regular file, and the source paths are distinct from the destination.   *)
(***************************************************************************)
EXTENDS Integers, Sequences, FiniteSets, TLC

VARIABLES log, files, dirs, dest, pc, json_data, test_binary_path,
          stdout, fault, copies, dirs0, dest0

vars == <<log, files, dirs, dest, pc, json_data, test_binary_path,
          stdout, fault, copies, dirs0, dest0>>

----------------------------------------------------------------------------
(* Bounds of the input space *)

MaxLines == 3

MaxNames == 2

SeqsUpTo(S, n) == UNION {[1..k -> S] : k \in 0..n}

----------------------------------------------------------------------------
(* JSON values that occur as elements of "filenames" *)

JNull == [kind |-> "null", str |-> ""]

JStr(s) == [kind |-> "string", str |-> s]

Names == {"/tmp/a", "/tmp/b"}

Elements == {JNull, JStr("")} \cup {JStr(p) : p \in Names}

(* The lines of latest_test.json, as text.  "bad" is a line json.loads     *)
(* rejects (malformed or blank), "scalar" a valid JSON value that is not   *)
(* an object, "object" an object whose "filenames" member is absent, null  *)
(* or a list of Elements.                                                  *)
BadLine == [kind |-> "bad", fn |-> "absent", names |-> <<>>]

ScalarLine == [kind |-> "scalar", fn |-> "absent", names |-> <<>>]

ObjLine(fn, names) == [kind |-> "object", fn |-> fn, names |-> names]

Lines ==
  {BadLine, ScalarLine, ObjLine("absent", <<>>), ObjLine("null", <<>>)}
    \cup {ObjLine("list", s) : s \in SeqsUpTo(Elements, MaxNames)}

(* The records tried at the positions other than the second-to-last one. *)
OtherLines ==
  {BadLine, ScalarLine, ObjLine("absent", <<>>),
   ObjLine("list", <<JStr("/tmp/b")>>)}

LogsOfLen(k) ==
  IF k < 2 THEN [1..k -> OtherLines]
  ELSE {[i \in 1..k |-> IF i = k - 1 THEN r ELSE o[i]] :
          r \in Lines, o \in [1..k -> OtherLines]}

Logs == UNION {LogsOfLen(k) : k \in 0..MaxLines}

(* The logs written between two runs: every record at the second-to-last   *)
(* position, followed by one object without "filenames".                   *)
RerunLogs == {<<r, ObjLine("absent", <<>>)>> : r \in Lines}

----------------------------------------------------------------------------
(* File-system values *)

NoFile == "<no file>"

Bytes(p) == IF p = "/tmp/a" THEN "bytes of a" ELSE "bytes of b"

OldBytes == "bytes of an old binary"

TargetDir == "target"

TargetTestDir == "target/test"

Diagnostic == "An error has occured. Wrong json format!"

Unset == [kind |-> "unset", str |-> ""]

----------------------------------------------------------------------------
(* json.loads(line): the parsed value of a line *)

LoadsFails(line) == line.kind = "bad"

Loads(line) ==
  [isdict |-> line.kind = "object",
   keys |-> IF line.kind = "object" /\ line.fn # "absent"
              THEN {"filenames"} ELSE {},
   filenames |-> IF line.kind = "object" /\ line.fn = "list"
                   THEN [kind |-> "list", items |-> line.names]
                   ELSE [kind |-> "null", items |-> <<>>]]

(* [json.loads(line) for line in file]: the first bad line raises. *)
ParseFailsKeyOnly(lines) ==
  Len(lines) >= 2 /\ LoadsFails(lines[Len(lines) - 1])

ParseFails(lines) == \E i \in 1..Len(lines) : LoadsFails(lines[i])

ParseAll(lines) == [i \in 1..Len(lines) |-> Loads(lines[i])]

(* Python's list subscript s[i], i counted from the end when negative:     *)
(* <<item>>, or <<>> where Python raises IndexError.                       *)
Pick(s, i) ==
  IF i < 0
    THEN IF -i <= Len(s) THEN <<s[Len(s) + i + 1]>> ELSE <<>>
    ELSE IF i < Len(s) THEN <<s[i + 1]>> ELSE <<>>

LastRecord(data) == Pick(data, -1)

SecondToLastClamped(data) ==
  IF Len(data) = 1 THEN <<data[1]>> ELSE Pick(data, -2)

(* json_data[-2] *)
SecondToLast(data) == Pick(data, -2)

(* rec.get("filenames", [None]) *)
GetFilenames(rec) ==
  IF "filenames" \in rec.keys THEN rec.filenames
  ELSE [kind |-> "list", items |-> <<JNull>>]

LastName(v) == Pick(v.items, -1)

(* (...)[0] on the list that get returned *)
FirstName(v) == Pick(v.items, 0)

(* line 6 as a whole: the fault it raises, or the candidate it binds *)
SelectResult(data) ==
  LET r == SecondToLast(data) IN
  IF r = <<>> THEN [fault |-> "IndexError", path |-> Unset]
  ELSE IF ~r[1].isdict THEN [fault |-> "AttributeError", path |-> Unset]
  ELSE LET v == GetFilenames(r[1]) IN
       IF v.kind = "null" THEN [fault |-> "TypeError", path |-> Unset]
       ELSE LET e == FirstName(v) IN
            IF e = <<>> THEN [fault |-> "IndexError", path |-> Unset]
            ELSE [fault |-> "none", path |-> e[1]]

NotNone(e) == e.kind # "null"

(* if test_binary_path: Python truthiness, None and "" are false. *)
Truthy(e) == e.kind = "string" /\ e.str # ""

ExistOkFalse == FALSE

(* exist_ok=True *)
ExistOk == TRUE

(* os.makedirs(target_directory, exist_ok=True) *)
MakedirsFails(d) == ~ExistOk /\ TargetTestDir \in d

Makedirs(d) == d \cup {TargetDir, TargetTestDir}

FileAt(fs, p) == IF p \in DOMAIN fs THEN fs[p] ELSE NoFile

KeepExisting(fs, src, old) ==
  [ok |-> FileAt(fs, src) # NoFile,
   dest |-> IF old # NoFile THEN old ELSE FileAt(fs, src),
   files |-> fs]

TruncateFirst(fs, src, old) ==
  [ok |-> FileAt(fs, src) # NoFile,
   dest |-> IF FileAt(fs, src) # NoFile THEN FileAt(fs, src) ELSE "",
   files |-> fs]

MoveResult(fs, src, old) ==
  [ok |-> FileAt(fs, src) # NoFile,
   dest |-> IF FileAt(fs, src) # NoFile THEN FileAt(fs, src) ELSE old,
   files |-> IF src \in DOMAIN fs THEN [fs EXCEPT ![src] = NoFile] ELSE fs]

(* shutil.copy(src, dst): the source is opened first, so a missing source  *)
(* raises before dst is touched; otherwise dst gets the source's bytes and *)
(* the source stays as it is.                                              *)
CopyResult(fs, src, old) ==
  [ok |-> FileAt(fs, src) # NoFile,
   dest |-> IF FileAt(fs, src) # NoFile THEN FileAt(fs, src) ELSE old,
   files |-> fs]

(* The whole script as a function of the log, the source files and the     *)
(* directories: the fault it ends in, whether it printed, and the source   *)
(* it copied.                                                              *)
RunOutcome(l, fs, d) ==
  IF ParseFails(l)
    THEN [fault |-> "JSONDecodeError", printed |-> FALSE, copied |-> NoFile]
  ELSE LET sel == SelectResult(ParseAll(l)) IN
    IF sel.fault # "none"
      THEN [fault |-> sel.fault, printed |-> FALSE, copied |-> NoFile]
    ELSE IF ~Truthy(sel.path)
      THEN [fault |-> "none", printed |-> TRUE, copied |-> NoFile]
    ELSE IF MakedirsFails(d)
      THEN [fault |-> "FileExistsError", printed |-> FALSE, copied |-> NoFile]
    ELSE IF ~CopyResult(fs, sel.path.str, NoFile).ok
      THEN [fault |-> "FileNotFoundError", printed |-> FALSE,
            copied |-> NoFile]
    ELSE [fault |-> "none", printed |-> FALSE, copied |-> sel.path.str]

----------------------------------------------------------------------------
Init ==
  /\ log \in Logs
  /\ files \in {f \in [Names -> {NoFile} \cup {Bytes(p) : p \in Names}] :
                  \A p \in Names : f[p] \in {NoFile, Bytes(p)}}
  /\ dirs \in {{}, {TargetDir}, {TargetDir, TargetTestDir}}
  /\ dest \in IF TargetTestDir \in dirs THEN {NoFile, OldBytes} ELSE {NoFile}
  /\ pc = "parse"
  /\ json_data = <<>>
  /\ test_binary_path = Unset
  /\ stdout = <<>>
  /\ fault = "none"
  /\ copies = 0
  /\ dirs0 = dirs
  /\ dest0 = dest

(* lines 3-4 *)
Parse ==
  /\ pc = "parse"
  /\ IF ParseFails(log)
       THEN /\ pc' = "fault"
            /\ fault' = "JSONDecodeError"
            /\ UNCHANGED json_data
       ELSE /\ pc' = "select"
            /\ json_data' = ParseAll(log)
            /\ UNCHANGED fault
  /\ UNCHANGED <<log, files, dirs, dest, test_binary_path, stdout, copies,
                 dirs0, dest0>>

(* line 6 *)
Select ==
  /\ pc = "select"
  /\ LET sel == SelectResult(json_data) IN
       /\ pc' = IF sel.fault = "none" THEN "branch" ELSE "fault"
       /\ fault' = sel.fault
       /\ test_binary_path' = sel.path
  /\ UNCHANGED <<log, files, dirs, dest, json_data, stdout, copies,
                 dirs0, dest0>>

(* line 7 *)
Branch ==
  /\ pc = "branch"
  /\ pc' = IF Truthy(test_binary_path) THEN "makedirs" ELSE "print"
  /\ UNCHANGED <<log, files, dirs, dest, json_data, test_binary_path,
                 stdout, fault, copies, dirs0, dest0>>

(* lines 8-10 *)
MakeDirectory ==
  /\ pc = "makedirs"
  /\ IF MakedirsFails(dirs)
       THEN /\ pc' = "fault" /\ fault' = "FileExistsError"
            /\ UNCHANGED dirs
       ELSE /\ pc' = "copy"
            /\ dirs' = Makedirs(dirs)
            /\ UNCHANGED fault
  /\ UNCHANGED <<log, files, dest, json_data, test_binary_path, stdout,
                 copies, dirs0, dest0>>

(* line 11 *)
Copy ==
  /\ pc = "copy"
  /\ LET res == CopyResult(files, test_binary_path.str, dest) IN
       /\ pc' = IF res.ok THEN "done" ELSE "fault"
       /\ fault' = IF res.ok THEN fault ELSE "FileNotFoundError"
       /\ copies' = IF res.ok THEN copies + 1 ELSE copies
       /\ dest' = res.dest
       /\ files' = res.files
  /\ UNCHANGED <<log, dirs, json_data, test_binary_path, stdout,
                 dirs0, dest0>>

(* lines 12-13 *)
PrintDiagnostic ==
  /\ pc = "print"
  /\ stdout' = Append(stdout, Diagnostic)
  /\ pc' = "done"
  /\ UNCHANGED <<log, files, dirs, dest, json_data, test_binary_path,
                 fault, copies, dirs0, dest0>>

(* The environment: after a run has ended the build tool writes another    *)
(* log and the script is started again in the file system the run left.    *)
NewRun ==
  /\ pc \in {"done", "fault"}
  /\ log' \in RerunLogs
  /\ pc' = "parse"
  /\ json_data' = <<>>
  /\ test_binary_path' = Unset
  /\ stdout' = <<>>
  /\ fault' = "none"
  /\ copies' = 0
  /\ dirs0' = dirs
  /\ dest0' = dest
  /\ UNCHANGED <<files, dirs, dest>>

Next ==
  \/ Parse
  \/ Select
  \/ Branch
  \/ MakeDirectory
  \/ Copy
  \/ PrintDiagnostic
  \/ NewRun

Spec == Init /\ [][Next]_vars

----------------------------------------------------------------------------
(* Vocabulary of the properties, stated on the text of the log *)

Ended == pc \in {"done", "fault"}

AllValid(l) == \A i \in 1..Len(l) : l[i].kind # "bad"

KeyLine(l) == l[Len(l) - 1]

(* the log is well formed with at least two lines and its second-to-last record is an object *)
HasKeyObject(l) ==
  /\ Len(l) >= 2
  /\ AllValid(l)
  /\ KeyLine(l).kind = "object"

(* ... whose "filenames" is a non-empty list *)
HasFirstName(l) ==
  /\ HasKeyObject(l)
  /\ KeyLine(l).fn = "list"
  /\ Len(KeyLine(l).names) >= 1

FirstOf(l) == KeyLine(l).names[1]

(* ... whose first element names an existing file *)
NamesExistingFile(l, fs) ==
  /\ HasFirstName(l)
  /\ FirstOf(l).kind = "string"
  /\ FirstOf(l).str \in Names
  /\ fs[FirstOf(l).str] # NoFile

FileSystemAsBefore == dirs = dirs0 /\ dest = dest0

----------------------------------------------------------------------------
(* C1: for every log with at least 2 well-formed lines whose second-to-last *)
(* record has a non-empty filenames list whose first element names an       *)
(* existing file, the run never faults, and when it has ended               *)
(* target/test/latest_tests exists with the content of that source file.    *)
C1_CopiesFirstFilename ==
  NamesExistingFile(log, files) =>
    /\ pc \notin {"fault", "print"}
    /\ fault = "none"
    /\ pc = "done" =>
         /\ TargetTestDir \in dirs
         /\ dest # NoFile
         /\ dest = files[FirstOf(log).str]
         /\ stdout = <<>>

(* the scenario of the specification: the first line names /tmp/a, the     *)
(* second /tmp/b, and /tmp/a has been copied over something else           *)
C1_Witness ==
  /\ log = <<ObjLine("list", <<JStr("/tmp/a")>>),
             ObjLine("list", <<JStr("/tmp/b")>>)>>
  /\ pc = "done"
  /\ dest = Bytes("/tmp/a")
  /\ dest0 # dest

(* C2: for every well-formed log whose second-to-last record has filenames  *)
(* absent, null or an empty list, the run writes nothing under target/test  *)
(* and prints the diagnostic.                                               *)
C2_DiagnosticWhenNoFilenames ==
  ( /\ HasKeyObject(log)
    /\ \/ KeyLine(log).fn \in {"absent", "null"}
       \/ KeyLine(log).fn = "list" /\ KeyLine(log).names = <<>>
    /\ Ended )
  => /\ FileSystemAsBefore
     /\ stdout = <<Diagnostic>>

(* C3: for every log with fewer than 2 lines the run ends in a fault:      *)
(* nothing is copied, target/test is not created, nothing is printed, and  *)
(* the run never gets past the selection of the record.                    *)
C3_FewerThanTwoRecordsFault ==
  Len(log) < 2 =>
    /\ pc \in {"parse", "select", "fault"}
    /\ FileSystemAsBefore
    /\ stdout = <<>>
    /\ copies = 0
    /\ pc = "fault" => fault \in {"IndexError", "JSONDecodeError"}

(* a log of one valid line has ended in the indexing fault *)
C3_Witness ==
  /\ Len(log) = 1
  /\ AllValid(log)
  /\ pc = "fault"
  /\ fault = "IndexError"

(* C4: if any line of the log is not valid JSON, the run ends in the parse *)
(* fault before a record is selected: no list of records is bound, no      *)
(* directory is created, no file is copied and nothing is printed.         *)
C4_AnyBadLineParseFault ==
  ~AllValid(log) =>
    /\ pc \in {"parse", "fault"}
    /\ pc = "fault" => fault = "JSONDecodeError"
    /\ json_data = <<>>
    /\ test_binary_path = Unset
    /\ FileSystemAsBefore
    /\ stdout = <<>>
    /\ copies = 0

(* the bad line is the last one, behind a record that names an existing    *)
(* file, and the run has faulted                                           *)
C4_Witness ==
  /\ Len(log) = 2
  /\ log[1] = ObjLine("list", <<JStr("/tmp/a")>>)
  /\ log[2] = BadLine
  /\ files["/tmp/a"] # NoFile
  /\ pc = "fault"
  /\ fault = "JSONDecodeError"

(* C5: every successful copy overwrites target/test/latest_tests: after the *)
(* copy step its content is exactly the source selected by the log of this  *)
(* run, whatever an earlier run left there.                                 *)
C5_LatestRunOverwrites ==
  [][(pc = "copy" /\ pc' = "done") =>
       /\ dest' = files[FirstOf(log).str]
       /\ dest' # NoFile
       /\ copies' = 1]_vars

(* an earlier run left the bytes of /tmp/a, this run has put /tmp/b's there *)
C5_Witness ==
  /\ pc = "done"
  /\ copies = 1
  /\ dest0 = Bytes("/tmp/a")
  /\ dest = Bytes("/tmp/b")

(* C6 as claimed: every ended run has either copied the file or left the   *)
(* file system as it was before the run.                                   *)
C6_NoPartialFailure ==
  Ended =>
    \/ /\ pc = "done" /\ copies = 1
       /\ dest = FileAt(files, test_binary_path.str)
    \/ FileSystemAsBefore

(* C6 amended: every ended run has either copied the file, or left          *)
(* target/test/latest_tests as it was; in the second case the directories   *)
(* are as they were too unless the run faulted in the copy (missing         *)
(* source), and then target and target/test exist, created by the run if    *)
(* they were absent.                                                        *)
C6_CopyOrDestinationUntouched ==
  Ended =>
    \/ /\ pc = "done" /\ copies = 1
       /\ FileAt(files, test_binary_path.str) # NoFile
       /\ dest = FileAt(files, test_binary_path.str)
    \/ /\ copies = 0
       /\ dest = dest0
       /\ IF fault = "FileNotFoundError"
            THEN dirs = dirs0 \cup {TargetDir, TargetTestDir}
            ELSE dirs = dirs0

(* the source is missing and the run has faulted in the copy after having   *)
(* created target and target/test, which were absent                       *)
C6_Witness ==
  /\ pc = "fault"
  /\ fault = "FileNotFoundError"
  /\ dirs0 = {}
  /\ dirs = {TargetDir, TargetTestDir}
  /\ dest = NoFile

(* The logs one edit away from l that keep its second-to-last record's     *)
(* first filename and the validity of every line: another valid record at  *)
(* one other position, other elements behind the first filename, one more  *)
(* valid record in front, or the first record dropped.                     *)
Replaceable(l) ==
  {i \in 1..Len(l) : i # Len(l) - 1 /\ l[i].kind # "bad"}

ValidOthers == {o \in OtherLines : o.kind # "bad"}

Variants(l) ==
  IF Len(l) < 2 THEN {}
  ELSE {[l EXCEPT ![i] = o] : i \in Replaceable(l), o \in ValidOthers}
    \cup (IF KeyLine(l).kind = "object" /\ KeyLine(l).fn = "list"
               /\ KeyLine(l).names # <<>>
            THEN {[l EXCEPT ![Len(l) - 1] =
                     ObjLine("list", <<FirstOf(l)>> \o t)] :
                    t \in SeqsUpTo(Elements, MaxNames - 1)}
            ELSE {})
    \cup (IF Len(l) < MaxLines THEN {<<o>> \o l : o \in ValidOthers} ELSE {})
    \cup (IF Len(l) > 2 /\ l[1].kind # "bad" THEN {Tail(l)} ELSE {})

Observed ==
  [fault |-> fault, printed |-> stdout # <<>>,
   copied |-> IF copies > 0 THEN test_binary_path.str ELSE NoFile]

(* C7: the outcome of a run depends only on the second-to-last record and,  *)
(* in it, on the first element of filenames: every log that differs from    *)
(* the log of this run in one other record (valid JSON in both), in the     *)
(* elements of filenames behind the first, or by one more or one fewer      *)
(* valid record in front, has the outcome this run had.                     *)
C7_OnlySecondToLastFirstName ==
  Ended => \A l2 \in Variants(log) : RunOutcome(l2, files, dirs0) = Observed

(* a run has copied /tmp/a although a later element and the last record    *)
(* name /tmp/b                                                             *)
C7_Witness ==
  /\ Len(log) = 3
  /\ KeyLine(log) = ObjLine("list", <<JStr("/tmp/a"), JStr("/tmp/b")>>)
  /\ log[3] = ObjLine("list", <<JStr("/tmp/b")>>)
  /\ files["/tmp/b"] # NoFile
  /\ pc = "done"
  /\ dest = Bytes("/tmp/a")

(* C8: creating the directory is idempotent: a run with a candidate never   *)
(* faults because target/test exists, has both directories once line 10 is  *)
(* passed, and succeeds exactly when the source exists, whether the         *)
(* directories existed before the run or not.                               *)
C8_MakedirsIdempotent ==
  /\ fault # "FileExistsError"
  /\ pc \in {"makedirs", "copy"} => fault = "none"
  /\ (pc = "copy" \/ (Ended /\ Truthy(test_binary_path))) =>
       /\ dirs = dirs0 \cup {TargetDir, TargetTestDir}
       /\ Ended => (pc = "done" <=> FileAt(files, test_binary_path.str) # NoFile)

(* the directory existed before the run and the copy succeeded *)
C8_Witness ==
  /\ dirs0 = {TargetDir, TargetTestDir}
  /\ pc = "done"
  /\ copies = 1
  /\ dirs = dirs0

(* C9: the branch is decided by truthiness: when the first filename of the  *)
(* second-to-last record is null or the empty string the run ends normally  *)
(* with the diagnostic printed and the file system as it was; and no run    *)
(* both copies and prints.                                                  *)
C9_FalsyCandidateDiagnostic ==
  /\ ~(copies > 0 /\ stdout # <<>>)
  /\ (HasFirstName(log) /\ FirstOf(log) \in {JNull, JStr("")}) =>
       /\ pc \notin {"fault", "makedirs", "copy"}
       /\ copies = 0
       /\ FileSystemAsBefore
       /\ pc = "done" => stdout = <<Diagnostic>> /\ fault = "none"

(* filenames is [""] and the diagnostic has been printed *)
C9_Witness ==
  /\ HasFirstName(log)
  /\ FirstOf(log) = JStr("")
  /\ pc = "done"
  /\ stdout = <<Diagnostic>>

(* C10: a step of the script changes nothing but the directories target and *)
(* target/test and the file target/test/latest_tests: the log and the       *)
(* source files stay as they are, no other directory appears, and a run     *)
(* copies at most once.                                                     *)
C10_Frame ==
  [][~Ended =>
       /\ log' = log
       /\ files' = files
       /\ dirs \subseteq dirs'
       /\ dirs' \subseteq dirs \cup {TargetDir, TargetTestDir}
       /\ copies' <= 1
       /\ (dest' # dest => pc = "copy" /\ copies' = copies + 1)]_vars

(* a copy has happened and the source is still there *)
C10_Witness ==
  /\ pc = "done"
  /\ copies = 1
  /\ dest # dest0
  /\ dest = FileAt(files, test_binary_path.str)

====
